---- MODULE Spec2Model ----
(***************************************************************************)
(* Model of src/Compression/CompressionCodecZSTD.cpp: the ZSTD block codec, *)
(* its registry constructors (argument validation), and the QAT hardware-   *)
(* accelerated variant with its lazily initialised offload session.         *)
(*                                                                          *)
(* Four families of behaviours are specified:                               *)
(*   SpecConstruct  the constructing operations applied to argument lists   *)
(*   SpecSw         concurrent doCompressData calls on one software codec   *)
(*   SpecQat        concurrent doCompressData calls on one QATZSTD codec    *)
(*   SpecQatSerial  the same calls made one at a time                       *)
(* Numbers wider than 31 bits are kept as 16-bit limbs, least significant   *)
(* limb first, so that narrowing and truncation are computed exactly.       *)
(***************************************************************************)
EXTENDS Integers, Sequences, FiniteSets, TLC

VARIABLES
    engine,                 \* what the zstd / QAT libraries report in this run
    call,                   \* the last constructing operation and its arguments
    result,                 \* what that operation returned or threw
    codec,                  \* the codec instance the compress calls run on
    initialized,            \* CompressionCodecQATZSTD::initialized
    cctx,                   \* CompressionCodecQATZSTD::cctx (0: indeterminate)
    sequenceProducerState,  \* CompressionCodecQATZSTD::sequenceProducerState
    ctxs,                   \* every ZSTD_CCtx ever created, by id
    sessions,               \* every QZSTD sequence producer state ever created
    pc,                     \* each thread's position inside doCompressData
    frame,                  \* each thread's locals
    deviceStarts,           \* number of QZSTD_startQatDevice calls
    warnings,               \* LOG_WARNING events, in order
    releases,               \* release calls made by the destructor, in order
    destroyed,              \* the instance's destructor has run
    ncalls,                 \* doCompressData calls begun
    outcomes                \* how each finished call ended, in order

vars == <<engine, call, result, codec, initialized, cctx, sequenceProducerState,
          ctxs, sessions, pc, frame, deviceStarts, warnings, releases,
          destroyed, ncalls, outcomes>>

ctorVars == <<call, result>>
runVars  == <<codec, initialized, cctx, sequenceProducerState, ctxs, sessions,
              pc, frame, deviceStarts, warnings, releases, destroyed, ncalls,
              outcomes>>

----------------------------------------------------------------------------
(* Bounds of the model *)

MaxArgs == 3        \* longest argument list handed to a constructor
MaxHi == 1          \* largest upper 32-bit half of a UInt64 argument
MaxCalls == 3       \* doCompressData calls per behaviour

Threads == {"t1", "t2"}

----------------------------------------------------------------------------
(* Program constants *)

ZSTD_DEFAULT_LEVEL == 1
QATZSTD_SUPPORTED_MIN_LEVEL == 1
QATZSTD_SUPPORTED_MAX_LEVEL == 12

ILLEGAL_SYNTAX_FOR_CODEC_TYPE == "ILLEGAL_SYNTAX_FOR_CODEC_TYPE"
ILLEGAL_CODEC_PARAMETER == "ILLEGAL_CODEC_PARAMETER"
CANNOT_COMPRESS == "CANNOT_COMPRESS"

----------------------------------------------------------------------------
(* The engine as the code sees it: ZSTD_maxCLevel(), the result of          *)
(* ZSTD_cParam_getBounds(ZSTD_c_windowLog) and whether the QAT device can   *)
(* be started.  The values are the library's, not the program's, so each    *)
(* behaviour draws them.                                                    *)

EngineMaxCLevels == {20, 22}
EngineWindowLogBounds ==
    {[error |-> TRUE, lowerBound |-> 0, upperBound |-> 0]}
    \cup {[error |-> FALSE, lowerBound |-> 10, upperBound |-> u] : u \in {30, 31}}

Engines ==
    [maxCLevel : EngineMaxCLevels, windowLog : EngineWindowLogBounds,
     qatAvailable : BOOLEAN]

ZSTD_maxCLevel == engine.maxCLevel
ZSTD_cParam_getBounds == engine.windowLog

----------------------------------------------------------------------------
(* Arguments: children of the arguments AST.  A child is an ASTLiteral      *)
(* holding a UInt64 (hi * 2^32 + mid * 2^16 + lo) or some other AST node.   *)

NonLiteral == [lit |-> FALSE, hi |-> 0, mid |-> 0, lo |-> 0]
Literal(hi, mid, lo) == [lit |-> TRUE, hi |-> hi, mid |-> mid, lo |-> lo]

MidLimbs == {0, 32768, 65535}
LoLimbs == {0, 1, 9, 10, 12, 13, 20, 21, 22, 23, 30, 31, 32, 65535}

ArgValues ==
    {NonLiteral} \cup {Literal(h, m, l) : h \in 0..MaxHi, m \in MidLimbs, l \in LoLimbs}
FewArgValues ==
    {NonLiteral, Literal(0, 0, 0), Literal(0, 0, 12), Literal(0, 0, 23)}

\* const ASTPtr & arguments: a null pointer, or a node with children
NullArguments == [null |-> TRUE, children |-> <<>>]
Arguments(children) == [null |-> FALSE, children |-> children]

LongLists(n) == [1..n -> FewArgValues]

ArgLists ==
    {NullArguments}
    \cup {Arguments(c) : c \in {<<>>} \cup [1..1 -> ArgValues] \cup [1..2 -> ArgValues]}
    \cup {Arguments(c) : c \in UNION {LongLists(n) : n \in 3..MaxArgs}}

\* arguments && !arguments->children.empty()
HasChildren(arguments) == ~arguments.null /\ Len(arguments.children) > 0

\* children[i]->as<ASTLiteral>()
IsLiteral(child) == child.lit

\* int x = literal->value.safeGet<UInt64>(): the low 32 bits, read as signed
ToInt(child) ==
    IF child.mid >= 32768
    THEN (child.mid - 65536) * 65536 + child.lo
    ELSE child.mid * 65536 + child.lo

----------------------------------------------------------------------------
(* Codec instances and the outcome of a constructing operation *)

\* CompressionCodecZSTD(int level_, int window_log_)
CompressionCodecZSTD2(level_, window_log_) ==
    [name |-> "ZSTD", level |-> level_, enable_long_range |-> TRUE,
     window_log |-> window_log_]

\* CompressionCodecZSTD(int level_)
CompressionCodecZSTD1(level_) ==
    [name |-> "ZSTD", level |-> level_, enable_long_range |-> FALSE,
     window_log |-> 0]

\* CompressionCodecQATZSTD(int level_) : CompressionCodecZSTD(level_)
CompressionCodecQATZSTD(level_) ==
    [CompressionCodecZSTD1(level_) EXCEPT !.name = "QATZSTD"]

NoCodec == [name |-> "none", level |-> 0, enable_long_range |-> FALSE, window_log |-> 0]

Returned(c) == [kind |-> "instance", codec |-> c, code |-> "none", what |-> "none"]
Throw(code, what) == [kind |-> "error", codec |-> NoCodec, code |-> code, what |-> what]
NoResult == [kind |-> "none", codec |-> NoCodec, code |-> "none", what |-> "none"]
NoCall == [ctor |-> "none", args |-> NullArguments, level |-> 0]

\* the window-log range test of the ZSTD constructor
WindowLogRejected(window_log, bounds) ==
    window_log # 0 /\ (window_log > bounds.upperBound \/ window_log < bounds.lowerBound)

\* the second-argument branch of the ZSTD constructor
CreateZSTDWithWindow(level, child) ==
    IF ~IsLiteral(child)
    THEN Throw(ILLEGAL_CODEC_PARAMETER, "ZSTD codec second argument must be integer")
    ELSE LET window_log == ToInt(child)
             window_log_bounds == ZSTD_cParam_getBounds
         IN  IF window_log_bounds.error
             THEN Throw(ILLEGAL_CODEC_PARAMETER, "ZSTD windowLog parameter is not supported")
             ELSE IF WindowLogRejected(window_log, window_log_bounds)
             THEN Throw(ILLEGAL_CODEC_PARAMETER, "ZSTD codec can't have window log more than")
             ELSE Returned(CompressionCodecZSTD2(level, window_log))

\* the constructor closure registered under "ZSTD"
CreateZSTD(arguments) ==
    IF ~HasChildren(arguments)
    THEN Returned(CompressionCodecZSTD1(ZSTD_DEFAULT_LEVEL))
    ELSE IF Len(arguments.children) > 2
    THEN Throw(ILLEGAL_SYNTAX_FOR_CODEC_TYPE, "ZSTD codec must have 1 or 2 parameters")
    ELSE IF ~IsLiteral(arguments.children[1])
    THEN Throw(ILLEGAL_CODEC_PARAMETER, "ZSTD codec argument must be integer")
    ELSE LET level == ToInt(arguments.children[1])
         IN  IF level > ZSTD_maxCLevel
             THEN Throw(ILLEGAL_CODEC_PARAMETER, "ZSTD codec can't have level more than")
             ELSE IF Len(arguments.children) > 1
             THEN CreateZSTDWithWindow(level, arguments.children[2])
             ELSE Returned(CompressionCodecZSTD1(level))

\* the level range test of the QATZSTD constructor
QatLevelRejected(level) ==
    level > QATZSTD_SUPPORTED_MAX_LEVEL \/ level < QATZSTD_SUPPORTED_MIN_LEVEL

\* the constructor closure registered under "QATZSTD"
CreateQATZSTD(arguments) ==
    IF ~HasChildren(arguments)
    THEN Returned(CompressionCodecQATZSTD(ZSTD_DEFAULT_LEVEL))
    ELSE IF Len(arguments.children) > 1
    THEN Throw(ILLEGAL_SYNTAX_FOR_CODEC_TYPE, "QATZSTD codec must have 1 parameter")
    ELSE IF ~IsLiteral(arguments.children[1])
    THEN Throw(ILLEGAL_CODEC_PARAMETER, "QATZSTD codec argument must be integer")
    ELSE LET level == ToInt(arguments.children[1])
         IN  IF QatLevelRejected(level)
             THEN Throw(ILLEGAL_CODEC_PARAMETER, "QATZSTD codec doesn't support level more than")
             ELSE Returned(CompressionCodecQATZSTD(level))

\* CompressionCodecPtr getCompressionCodecZSTD(int level)
getCompressionCodecZSTD(level) == Returned(CompressionCodecZSTD1(level))

DirectLevels == {-1, 0, 1, 12, 20, 21, 22, 23, 100}

----------------------------------------------------------------------------
(* Sizes.  A UInt32 is <<lo, hi>>, a size_t is <<l0, l1, l2>> (16-bit limbs; *)
(* no value met here needs more than 48 bits).                              *)

U32(lo, hi) == <<lo, hi>>

SourceSizes ==
    {U32(0, 0), U32(1000, 0), U32(65280, 65280), U32(65281, 65280), U32(65535, 65535)}

\* zstd.h, ZSTD_COMPRESSBOUND(srcSize):
\*   srcSize + (srcSize >> 8) + (srcSize < 128 KB ? (128 KB - srcSize) >> 11 : 0)
ZSTD_compressBound(s) ==
    LET sh0 == (s[1] \div 256) + (s[2] % 256) * 256
        sh1 == s[2] \div 256
        margin == IF s[2] < 2 THEN (131072 - (s[2] * 65536 + s[1])) \div 2048 ELSE 0
        sum0 == s[1] + sh0 + margin
        sum1 == s[2] + sh1 + (sum0 \div 65536)
    IN  <<sum0 % 65536, sum1 % 65536, sum1 \div 65536>>

\* conversion of a size_t to UInt32
ToUInt32(w) == <<w[1], w[2]>>

\* UInt32 getMaxCompressedDataSize(UInt32 uncompressed_size)
getMaxCompressedDataSize(uncompressed_size) == ToUInt32(ZSTD_compressBound(uncompressed_size))

\* a <= b, a a size_t and b a UInt32
FitsIn(a, b) ==
    /\ a[3] = 0
    /\ (a[2] < b[2] \/ (a[2] = b[2] /\ a[1] <= b[1]))

----------------------------------------------------------------------------
(* The engine's objects *)

\* ZSTD_createCCtx(): a fresh context with no parameter set
NewCCtx(t, callNo) ==
    [live |-> TRUE, creator |-> t, call |-> callNo, levelSet |-> FALSE, level |-> 0,
     ldm |-> FALSE, windowLog |-> 0, producer |-> 0, fallback |-> FALSE,
     users |-> {}]

\* QZSTD_createSeqProdState()
NewSeqProdState(t, callNo) == [live |-> TRUE, creator |-> t, call |-> callNo]

NoRes == [status |-> "none", path |-> "none", cause |-> "none"]

\* ZSTD_compress2 on context ctx.  fault: the engine itself reports an error;
\* offloadOk: the registered sequence producer delivers sequences for this block
\* (it cannot when the device was never started).
ZSTD_compress2(ctx, fault, offloadOk) ==
    IF fault
    THEN [status |-> "error", path |-> "none", cause |-> "engine"]
    ELSE IF ctx.producer = 0
    THEN [status |-> "ok", path |-> "software", cause |-> "none"]
    ELSE IF engine.qatAvailable /\ offloadOk
    THEN [status |-> "ok", path |-> "hardware", cause |-> "none"]
    ELSE IF ctx.fallback
    THEN [status |-> "ok", path |-> "software", cause |-> "none"]
    ELSE [status |-> "error", path |-> "none", cause |-> "producer"]

IdleFrame ==
    [size |-> U32(0, 0), cctx |-> 0, session |-> 0, cap |-> <<0, 0, 0>>, res |-> NoRes,
     done |-> {}, callNo |-> 0, devRes |-> "none"]

Did(t, step) == [frame EXCEPT ![t].done = @ \cup {step}]

AllIdle == \A t \in Threads : pc[t] = "idle"

\* how a finished call ends: the compressed size is returned, or
\* Exception(..., ErrorCodes::CANNOT_COMPRESS) is thrown
Outcome(f) ==
    [call |-> f.callNo,
     status |-> IF f.res.status = "error" THEN CANNOT_COMPRESS ELSE "returned",
     path |-> f.res.path, cause |-> f.res.cause]

----------------------------------------------------------------------------
(* The constructing operations *)

\* the inputs a behaviour may hand to a constructing operation
Calls ==
    {[ctor |-> n, args |-> a, level |-> 0] : n \in {"ZSTD", "QATZSTD"}, a \in ArgLists}
    \cup {[ctor |-> "getCompressionCodecZSTD", args |-> NullArguments, level |-> l] :
            l \in DirectLevels}

CallZSTD ==
    /\ call.ctor = "ZSTD" /\ result = NoResult
    /\ result' = CreateZSTD(call.args)
    /\ UNCHANGED <<engine, call, runVars>>

CallQATZSTD ==
    /\ call.ctor = "QATZSTD" /\ result = NoResult
    /\ result' = CreateQATZSTD(call.args)
    /\ UNCHANGED <<engine, call, runVars>>

CallGetCompressionCodecZSTD ==
    /\ call.ctor = "getCompressionCodecZSTD" /\ result = NoResult
    /\ result' = getCompressionCodecZSTD(call.level)
    /\ UNCHANGED <<engine, call, runVars>>

InitRun(c) ==
    /\ codec = c
    /\ initialized = FALSE
    /\ cctx = 0
    /\ sequenceProducerState = 0
    /\ ctxs = <<>>
    /\ sessions = <<>>
    /\ pc = [t \in Threads |-> "idle"]
    /\ frame = [t \in Threads |-> IdleFrame]
    /\ deviceStarts = 0
    /\ warnings = <<>>
    /\ releases = <<>>
    /\ destroyed = FALSE
    /\ ncalls = 0
    /\ outcomes = <<>>

InitConstruct ==
    /\ engine \in {e \in Engines : ~e.qatAvailable}
    /\ call \in Calls
    /\ result = NoResult
    /\ InitRun(NoCodec)

NextConstruct ==
    \/ CallZSTD
    \/ CallQATZSTD
    \/ CallGetCompressionCodecZSTD

SpecConstruct == InitConstruct /\ [][NextConstruct]_vars

----------------------------------------------------------------------------
(* CompressionCodecZSTD::doCompressData, one step per statement *)

\* the instances the "ZSTD" constructor returns for a few configurations
SwArgLists ==
    {Arguments(<<>>), Arguments(<<Literal(0, 0, 22)>>),
     Arguments(<<Literal(0, 0, 12), Literal(0, 0, 0)>>),
     Arguments(<<Literal(0, 0, 12), Literal(0, 0, 30)>>)}

RunEngines ==
    {e \in Engines : e.maxCLevel = 22 /\ ~e.windowLog.error /\ e.windowLog.upperBound = 31}

SwCall(t, s) ==
    /\ codec.name = "ZSTD"
    /\ pc[t] = "idle"
    /\ ncalls < MaxCalls
    /\ ncalls' = ncalls + 1
    /\ frame' = [frame EXCEPT ![t] = [IdleFrame EXCEPT !.size = s, !.callNo = ncalls + 1]]
    /\ pc' = [pc EXCEPT ![t] = "s_createCCtx"]
    /\ UNCHANGED <<engine, ctorVars, codec, initialized, cctx, sequenceProducerState,
                   ctxs, sessions, deviceStarts, warnings, releases, destroyed, outcomes>>

\* ZSTD_CCtx * cctx = ZSTD_createCCtx();
SwCreateCCtx(t) ==
    /\ pc[t] = "s_createCCtx"
    /\ ctxs' = Append(ctxs, NewCCtx(t, frame[t].callNo))
    /\ frame' = [frame EXCEPT ![t].cctx = Len(ctxs) + 1]
    /\ pc' = [pc EXCEPT ![t] = "s_setParameters"]
    /\ UNCHANGED <<engine, ctorVars, codec, initialized, cctx, sequenceProducerState,
                   sessions, deviceStarts, warnings, releases, destroyed, ncalls, outcomes>>

\* ZSTD_CCtx_setParameter: the level, and with enable_long_range the long
\* distance matching and the window log
SwSetParameters(t) ==
    /\ pc[t] = "s_setParameters"
    /\ ctxs' = [ctxs EXCEPT ![frame[t].cctx] =
                  [@ EXCEPT !.levelSet = TRUE, !.level = codec.level,
                            !.ldm = codec.enable_long_range,
                            !.windowLog = IF codec.enable_long_range
                                          THEN codec.window_log ELSE @,
                            !.users = @ \cup {t}]]
    /\ pc' = [pc EXCEPT ![t] = "s_compress"]
    /\ UNCHANGED <<engine, ctorVars, codec, initialized, cctx, sequenceProducerState,
                   sessions, frame, deviceStarts, warnings, releases, destroyed, ncalls,
                   outcomes>>

\* size_t compressed_size = ZSTD_compress2(cctx, dest, ZSTD_compressBound(source_size), ...)
SwCompress(t) ==
    /\ pc[t] = "s_compress"
    /\ \E fault \in BOOLEAN :
         frame' = [frame EXCEPT
                     ![t].res = ZSTD_compress2(ctxs[frame[t].cctx], fault, FALSE),
                     ![t].cap = ZSTD_compressBound(frame[t].size),
                     ![t].done = @ \cup {"compress"}]
    /\ ctxs' = [ctxs EXCEPT ![frame[t].cctx].users = @ \cup {t}]
    /\ pc' = [pc EXCEPT ![t] = "s_freeCCtx"]
    /\ UNCHANGED <<engine, ctorVars, codec, initialized, cctx, sequenceProducerState,
                   sessions, deviceStarts, warnings, releases, destroyed, ncalls, outcomes>>

\* a variant that throws before releasing the context
SwFreeCCtx_AfterErrorCheck(t) ==
    /\ pc[t] = "s_freeCCtx"
    /\ ctxs' = IF frame[t].res.status = "error" THEN ctxs
               ELSE [ctxs EXCEPT ![frame[t].cctx].live = FALSE,
                                 ![frame[t].cctx].users = @ \cup {t}]
    /\ pc' = [pc EXCEPT ![t] = "s_return"]
    /\ UNCHANGED <<engine, ctorVars, codec, initialized, cctx, sequenceProducerState,
                   sessions, frame, deviceStarts, warnings, releases, destroyed, ncalls,
                   outcomes>>

\* ZSTD_freeCCtx(cctx);
SwFreeCCtx(t) ==
    /\ pc[t] = "s_freeCCtx"
    /\ ctxs' = [ctxs EXCEPT ![frame[t].cctx].live = FALSE,
                            ![frame[t].cctx].users = @ \cup {t}]
    /\ pc' = [pc EXCEPT ![t] = "s_return"]
    /\ UNCHANGED <<engine, ctorVars, codec, initialized, cctx, sequenceProducerState,
                   sessions, frame, deviceStarts, warnings, releases, destroyed, ncalls,
                   outcomes>>

\* if (ZSTD_isError(compressed_size)) throw ...; return compressed_size;
SwReturn(t) ==
    /\ pc[t] = "s_return"
    /\ outcomes' = Append(outcomes, Outcome(frame[t]))
    /\ frame' = [frame EXCEPT ![t] = IdleFrame]
    /\ pc' = [pc EXCEPT ![t] = "idle"]
    /\ UNCHANGED <<engine, ctorVars, codec, initialized, cctx, sequenceProducerState,
                   ctxs, sessions, deviceStarts, warnings, releases, destroyed, ncalls>>

InitSw ==
    /\ engine \in {e \in RunEngines : ~e.qatAvailable}
    /\ call = NoCall
    /\ result = NoResult
    /\ \E a \in SwArgLists : InitRun(CreateZSTD(a).codec)

NextSw ==
    \E t \in Threads :
        \/ \E s \in SourceSizes : SwCall(t, s)
        \/ SwCreateCCtx(t)
        \/ SwSetParameters(t)
        \/ SwCompress(t)
        \/ SwFreeCCtx(t)
        \/ SwReturn(t)

SpecSw == InitSw /\ [][NextSw]_vars

----------------------------------------------------------------------------
(* CompressionCodecQATZSTD: doCompressData, one step per statement, and the *)
(* destructor.  cctx, sequenceProducerState and initialized are members of  *)
(* the instance, read and written by every thread that runs a call on it.   *)

QatArgLists ==
    {Arguments(<<>>), Arguments(<<Literal(0, 0, 12)>>)}

QatSourceSizes == {U32(1000, 0), U32(65535, 65535)}

\* a variant that marks the instance initialized before the level is applied
QatInitOrder_InitializedEarly ==
    <<"q_createCCtx", "q_startDevice", "q_createSeqProd", "q_register",
      "q_setFallback", "q_setInitialized", "q_setLevel", "q_log">>

\* the statements of the if (!initialized) block, in program order
QatInitOrder ==
    <<"q_createCCtx", "q_startDevice", "q_createSeqProd", "q_register",
      "q_setFallback", "q_setLevel", "q_setInitialized", "q_log">>

\* the statement after `step`: the next one of the block, then ZSTD_compress2
QatAfter(step) ==
    LET i == CHOOSE k \in 1..Len(QatInitOrder) : QatInitOrder[k] = step
    IN  IF i < Len(QatInitOrder) THEN QatInitOrder[i + 1] ELSE "q_compress"

QatGoto(t, step) == pc' = [pc EXCEPT ![t] = QatAfter(step)]

QatCall(t, s) ==
    /\ codec.name = "QATZSTD"
    /\ ~destroyed
    /\ pc[t] = "idle"
    /\ ncalls < MaxCalls
    /\ ncalls' = ncalls + 1
    /\ frame' = [frame EXCEPT ![t] = [IdleFrame EXCEPT !.size = s, !.callNo = ncalls + 1]]
    /\ pc' = [pc EXCEPT ![t] = "q_check"]
    /\ UNCHANGED <<engine, ctorVars, codec, initialized, cctx, sequenceProducerState,
                   ctxs, sessions, deviceStarts, warnings, releases, destroyed, outcomes>>

\* if (!initialized)
QatCheck(t) ==
    /\ pc[t] = "q_check"
    /\ pc' = [pc EXCEPT ![t] = IF ~initialized THEN QatInitOrder[1] ELSE "q_compress"]
    /\ UNCHANGED <<engine, ctorVars, codec, initialized, cctx, sequenceProducerState,
                   ctxs, sessions, frame, deviceStarts, warnings, releases, destroyed,
                   ncalls, outcomes>>

\* cctx = ZSTD_createCCtx();
QatCreateCCtx(t) ==
    /\ pc[t] = "q_createCCtx"
    /\ ctxs' = Append(ctxs, NewCCtx(t, frame[t].callNo))
    /\ cctx' = Len(ctxs) + 1
    /\ frame' = Did(t, "createCCtx")
    /\ QatGoto(t, "q_createCCtx")
    /\ UNCHANGED <<engine, ctorVars, codec, initialized, sequenceProducerState, sessions,
                   deviceStarts, warnings, releases, destroyed, ncalls, outcomes>>

\* int res = QZSTD_startQatDevice();
QatStartDevice(t) ==
    /\ pc[t] = "q_startDevice"
    /\ deviceStarts' = deviceStarts + 1
    /\ frame' = [frame EXCEPT ![t].done = @ \cup {"startDevice"},
                              ![t].devRes = IF engine.qatAvailable THEN "ok" ELSE "fail"]
    /\ QatGoto(t, "q_startDevice")
    /\ UNCHANGED <<engine, ctorVars, codec, initialized, cctx, sequenceProducerState,
                   ctxs, sessions, warnings, releases, destroyed, ncalls, outcomes>>

\* sequenceProducerState = QZSTD_createSeqProdState();
QatCreateSeqProdState(t) ==
    /\ pc[t] = "q_createSeqProd"
    /\ sessions' = Append(sessions, NewSeqProdState(t, frame[t].callNo))
    /\ sequenceProducerState' = Len(sessions) + 1
    /\ frame' = Did(t, "createSeqProd")
    /\ QatGoto(t, "q_createSeqProd")
    /\ UNCHANGED <<engine, ctorVars, codec, initialized, cctx, ctxs, deviceStarts,
                   warnings, releases, destroyed, ncalls, outcomes>>

\* ZSTD_registerSequenceProducer(cctx, sequenceProducerState, qatSequenceProducer);
QatRegister(t) ==
    /\ pc[t] = "q_register"
    /\ ctxs' = [ctxs EXCEPT ![cctx].producer = sequenceProducerState,
                            ![cctx].users = @ \cup {t}]
    /\ frame' = Did(t, "register")
    /\ QatGoto(t, "q_register")
    /\ UNCHANGED <<engine, ctorVars, codec, initialized, cctx, sequenceProducerState,
                   sessions, deviceStarts, warnings, releases, destroyed, ncalls, outcomes>>

\* a variant that leaves the engine's fallback off
QatSetFallback_Omitted(t) ==
    /\ pc[t] = "q_setFallback"
    /\ frame' = Did(t, "setFallback")
    /\ QatGoto(t, "q_setFallback")
    /\ UNCHANGED <<engine, ctorVars, codec, initialized, cctx, sequenceProducerState,
                   ctxs, sessions, deviceStarts, warnings, releases, destroyed, ncalls,
                   outcomes>>

\* ZSTD_CCtx_setParameter(cctx, ZSTD_c_enableSeqProducerFallback, 1);
QatSetFallback(t) ==
    /\ pc[t] = "q_setFallback"
    /\ ctxs' = [ctxs EXCEPT ![cctx].fallback = TRUE, ![cctx].users = @ \cup {t}]
    /\ frame' = Did(t, "setFallback")
    /\ QatGoto(t, "q_setFallback")
    /\ UNCHANGED <<engine, ctorVars, codec, initialized, cctx, sequenceProducerState,
                   sessions, deviceStarts, warnings, releases, destroyed, ncalls, outcomes>>

\* ZSTD_CCtx_setParameter(cctx, ZSTD_c_compressionLevel, level);
QatSetLevel(t) ==
    /\ pc[t] = "q_setLevel"
    /\ ctxs' = [ctxs EXCEPT ![cctx].levelSet = TRUE, ![cctx].level = codec.level,
                            ![cctx].users = @ \cup {t}]
    /\ frame' = Did(t, "setLevel")
    /\ QatGoto(t, "q_setLevel")
    /\ UNCHANGED <<engine, ctorVars, codec, initialized, cctx, sequenceProducerState,
                   sessions, deviceStarts, warnings, releases, destroyed, ncalls, outcomes>>

\* a variant that records the initialization only in the running call
QatSetInitialized_NotKept(t) ==
    /\ pc[t] = "q_setInitialized"
    /\ frame' = Did(t, "setInitialized")
    /\ QatGoto(t, "q_setInitialized")
    /\ UNCHANGED <<engine, ctorVars, codec, initialized, cctx, sequenceProducerState,
                   ctxs, sessions, deviceStarts, warnings, releases, destroyed, ncalls,
                   outcomes>>

\* initialized = true;
QatSetInitialized(t) ==
    /\ pc[t] = "q_setInitialized"
    /\ initialized' = TRUE
    /\ frame' = Did(t, "setInitialized")
    /\ QatGoto(t, "q_setInitialized")
    /\ UNCHANGED <<engine, ctorVars, codec, cctx, sequenceProducerState, ctxs, sessions,
                   deviceStarts, warnings, releases, destroyed, ncalls, outcomes>>

\* LOG_WARNING(log, "Initialization of hardware-assisted(QAT) ZSTD codec result: {} ", res);
QatLog(t) ==
    /\ pc[t] = "q_log"
    /\ warnings' = Append(warnings, [call |-> frame[t].callNo, res |-> frame[t].devRes])
    /\ frame' = Did(t, "log")
    /\ QatGoto(t, "q_log")
    /\ UNCHANGED <<engine, ctorVars, codec, initialized, cctx, sequenceProducerState,
                   ctxs, sessions, deviceStarts, releases, destroyed, ncalls, outcomes>>

\* size_t compressed_size = ZSTD_compress2(cctx, dest, ZSTD_compressBound(source_size), ...)
QatCompress(t) ==
    /\ pc[t] = "q_compress"
    /\ \E fault \in BOOLEAN, offloadOk \in BOOLEAN :
         frame' = [frame EXCEPT
                     ![t].res = ZSTD_compress2(ctxs[cctx], fault, offloadOk),
                     ![t].cap = ZSTD_compressBound(frame[t].size),
                     ![t].cctx = cctx,
                     ![t].session = ctxs[cctx].producer,
                     ![t].done = @ \cup {"compress"}]
    /\ ctxs' = [ctxs EXCEPT ![cctx].users = @ \cup {t}]
    /\ pc' = [pc EXCEPT ![t] = "q_return"]
    /\ UNCHANGED <<engine, ctorVars, codec, initialized, cctx, sequenceProducerState,
                   sessions, deviceStarts, warnings, releases, destroyed, ncalls, outcomes>>

\* if (ZSTD_isError(compressed_size)) throw ...; return compressed_size;
QatReturn(t) ==
    /\ pc[t] = "q_return"
    /\ outcomes' = Append(outcomes, Outcome(frame[t]))
    /\ frame' = [frame EXCEPT ![t] = IdleFrame]
    /\ pc' = [pc EXCEPT ![t] = "idle"]
    /\ UNCHANGED <<engine, ctorVars, codec, initialized, cctx, sequenceProducerState,
                   ctxs, sessions, deviceStarts, warnings, releases, destroyed, ncalls>>

\* the release calls of a destructor that frees the context before the session
ReleaseCalls_ContextFirst ==
    IF initialized
    THEN <<[kind |-> "ZSTD_freeCCtx", id |-> cctx],
           [kind |-> "QZSTD_freeSeqProdState", id |-> sequenceProducerState]>>
    ELSE <<>>

\* the release calls ~CompressionCodecQATZSTD() makes, in order
ReleaseCalls ==
    IF initialized
    THEN <<[kind |-> "QZSTD_freeSeqProdState", id |-> sequenceProducerState],
           [kind |-> "ZSTD_freeCCtx", id |-> cctx]>>
    ELSE <<>>

Released(kind) == {ReleaseCalls[i].id : i \in {k \in 1..Len(ReleaseCalls) : ReleaseCalls[k].kind = kind}}

\* ~CompressionCodecQATZSTD(), run once no call is in progress
QatDestroy ==
    /\ codec.name = "QATZSTD"
    /\ ~destroyed
    /\ AllIdle
    /\ destroyed' = TRUE
    /\ releases' = ReleaseCalls
    /\ sessions' = [i \in 1..Len(sessions) |->
                      IF i \in Released("QZSTD_freeSeqProdState")
                      THEN [sessions[i] EXCEPT !.live = FALSE] ELSE sessions[i]]
    /\ ctxs' = [i \in 1..Len(ctxs) |->
                  IF i \in Released("ZSTD_freeCCtx")
                  THEN [ctxs[i] EXCEPT !.live = FALSE] ELSE ctxs[i]]
    /\ UNCHANGED <<engine, ctorVars, codec, initialized, cctx, sequenceProducerState,
                   pc, frame, deviceStarts, warnings, ncalls, outcomes>>

QatStep(t) ==
    \/ QatCheck(t)
    \/ QatCreateCCtx(t)
    \/ QatStartDevice(t)
    \/ QatCreateSeqProdState(t)
    \/ QatRegister(t)
    \/ QatSetFallback(t)
    \/ QatSetLevel(t)
    \/ QatSetInitialized(t)
    \/ QatLog(t)
    \/ QatCompress(t)
    \/ QatReturn(t)

InitQat ==
    /\ engine \in RunEngines
    /\ call = NoCall
    /\ result = NoResult
    /\ \E a \in QatArgLists : InitRun(CreateQATZSTD(a).codec)

\* calls from several threads with no synchronization between them
NextQat ==
    \/ \E t \in Threads :
          \/ \E s \in QatSourceSizes : QatCall(t, s)
          \/ QatStep(t)
    \/ QatDestroy

SpecQat == InitQat /\ [][NextQat]_vars

\* calls made one at a time: a call begins only when no other is in progress
NextQatSerial ==
    \/ \E t \in Threads :
          \/ \E s \in QatSourceSizes : AllIdle /\ QatCall(t, s)
          \/ QatStep(t)
    \/ QatDestroy

SpecQatSerial == InitQat /\ [][NextQatSerial]_vars

----------------------------------------------------------------------------
(* Properties of the constructing operations (SpecConstruct) *)

Constructed == result # NoResult
Children == call.args.children

\* the UInt64 an argument holds, compared with a small number n
ArgIsZero(c) == c.hi = 0 /\ c.mid = 0 /\ c.lo = 0
ArgAbove(c, n) == c.hi > 0 \/ c.mid > 0 \/ c.lo > n
ArgBelow(c, n) == c.hi = 0 /\ c.mid = 0 /\ c.lo < n

\* the error kinds of the design, read off the throw sites
MalformedConfiguration(r) ==
    /\ r.kind = "error"
    /\ \/ r.code = ILLEGAL_SYNTAX_FOR_CODEC_TYPE
       \/ r.what \in {"ZSTD codec argument must be integer",
                      "ZSTD codec second argument must be integer",
                      "QATZSTD codec argument must be integer"}
ParameterOutOfRange(r) ==
    /\ r.kind = "error"
    /\ r.code = ILLEGAL_CODEC_PARAMETER
    /\ r.what \in {"ZSTD codec can't have level more than",
                   "ZSTD codec can't have window log more than",
                   "QATZSTD codec doesn't support level more than"}
UnsupportedParameter(r) ==
    /\ r.kind = "error"
    /\ r.what = "ZSTD windowLog parameter is not supported"

WithinEngineBounds(c) ==
    /\ c.level <= ZSTD_maxCLevel
    /\ \/ c.window_log = 0
       \/ /\ ~ZSTD_cParam_getBounds.error
          /\ c.window_log >= ZSTD_cParam_getBounds.lowerBound
          /\ c.window_log <= ZSTD_cParam_getBounds.upperBound

\* C5: every instance a constructing operation returns (the ZSTD and QATZSTD
\* registry constructors and getCompressionCodecZSTD) holds a level no larger
\* than the engine's maximum and a window size that is 0 or within the
\* engine's bounds; a first argument that narrows to the maximum is accepted
\* and one that narrows to the maximum plus one is rejected as out of range.
C5_InstancesWithinEngineBounds ==
    /\ result.kind = "instance" => WithinEngineBounds(result.codec)
    /\ (/\ Constructed /\ call.ctor = "ZSTD" /\ Len(Children) = 1
        /\ IsLiteral(Children[1]))
       => /\ ToInt(Children[1]) = ZSTD_maxCLevel => result.kind = "instance"
          /\ ToInt(Children[1]) = ZSTD_maxCLevel + 1 => ParameterOutOfRange(result)

\* C6: in the two-argument ZSTD constructor a window size of 0 is accepted
\* whatever the bounds, every nonzero window size outside [lowerBound,
\* upperBound] is rejected as out of range with no instance built, and a failed
\* bounds query is reported as an unsupported parameter, not as out of range.
C6_WindowSizeValidated ==
    (/\ Constructed /\ call.ctor = "ZSTD" /\ Len(Children) = 2
     /\ IsLiteral(Children[1]) /\ IsLiteral(Children[2])
     /\ ToInt(Children[1]) <= ZSTD_maxCLevel)
    => LET w == Children[2]
           b == ZSTD_cParam_getBounds
       IN  /\ b.error => UnsupportedParameter(result) /\ ~ParameterOutOfRange(result)
           /\ (~b.error /\ ArgIsZero(w)) => result.kind = "instance"
           /\ (/\ ~b.error /\ ~ArgIsZero(w)
               /\ (ArgAbove(w, b.upperBound) \/ ArgBelow(w, b.lowerBound)))
              => ParameterOutOfRange(result) /\ result.codec = NoCodec

MaxParameters(ctor) == IF ctor = "ZSTD" THEN 2 ELSE 1
HasNonLiteral(children) == \E i \in 1..Len(children) : ~IsLiteral(children[i])

\* C7: a configuration with more arguments than the codec accepts, or with a
\* non-numeric argument, is rejected as malformed whatever the values of its
\* arguments (the rejection precedes every range check); a configuration
\* with no argument yields an instance with the default level 1.
C7_MalformedBeforeRange ==
    (Constructed /\ call.ctor \in {"ZSTD", "QATZSTD"})
    => /\ (Len(Children) > MaxParameters(call.ctor) \/ HasNonLiteral(Children))
          => MalformedConfiguration(result)
       /\ ~HasChildren(call.args)
          => result.kind = "instance" /\ result.codec.level = 1

----------------------------------------------------------------------------
(* Properties of the software codec's compress calls (SpecSw) *)

\* C8: the destination capacity a compress call hands to the engine is no
\* larger than what getMaxCompressedDataSize returns for the same source size.
C8_CapacityWithinMaxCompressedSize ==
    \A t \in Threads :
        "compress" \in frame[t].done
        => FitsIn(frame[t].cap, getMaxCompressedDataSize(frame[t].size))

LiveCCtxs == {i \in 1..Len(ctxs) : ctxs[i].live}
InCall == {t \in Threads : pc[t] # "idle"}

\* C9: every software compress call creates its own engine context and has
\* released it when it returns or raises; no call touches a context another
\* call created or any member of the instance, so once all calls have
\* finished no context is left alive.
C9_ContextPerCallReleased ==
    /\ AllIdle => LiveCCtxs = {}
    /\ Cardinality(LiveCCtxs) <= Cardinality(InCall)
    /\ \A t \in Threads :
         /\ pc[t] = "s_return" => ~ctxs[frame[t].cctx].live
         /\ frame[t].cctx # 0
            => /\ ctxs[frame[t].cctx].creator = t
               /\ ctxs[frame[t].cctx].call = frame[t].callNo
    /\ \A i \in 1..Len(ctxs) : ctxs[i].users \subseteq {ctxs[i].creator}
    /\ \A i, j \in 1..Len(ctxs) : i # j => ctxs[i].call # ctxs[j].call
    /\ ~initialized /\ cctx = 0 /\ sequenceProducerState = 0

\* two calls in progress at once, one of them about to raise CANNOT_COMPRESS
\* after releasing its context
C9_Witness ==
    /\ pc["t1"] = "s_return" /\ frame["t1"].res.status = "error"
    /\ ~ctxs[frame["t1"].cctx].live
    /\ pc["t2"] = "s_freeCCtx" /\ frame["t2"].res.status = "ok"
    /\ Len(outcomes) >= 1

----------------------------------------------------------------------------
(* Properties of the QATZSTD codec *)

\* C1: when two threads make the first compress call concurrently, the
\* initialization is performed by exactly one of them: no second engine
\* context, session handle or device start ever exists for the instance.
C1_SingleInitialization ==
    Len(ctxs) <= 1 /\ Len(sessions) <= 1 /\ deviceStarts <= 1

\* C2: with calls made one at a time, construction does not initialize, the
\* first call does, and every call compresses with the one context and
\* session handle the first call created, also after a failed call.
C2_InitializedOnceThenReused ==
    /\ ncalls = 0
       => /\ ~initialized /\ ctxs = <<>> /\ sessions = <<>>
          /\ deviceStarts = 0 /\ warnings = <<>>
    /\ Len(ctxs) <= 1 /\ Len(sessions) <= 1 /\ deviceStarts <= 1
    /\ \A i \in 1..Len(ctxs) : ctxs[i].call = 1
    /\ \A i \in 1..Len(sessions) : sessions[i].call = 1
    /\ Len(outcomes) >= 1 => initialized /\ Len(ctxs) = 1 /\ Len(sessions) = 1
    /\ \A t \in Threads :
         "compress" \in frame[t].done
         => /\ frame[t].cctx = 1 /\ frame[t].session = 1
            /\ (frame[t].callNo > 1 => frame[t].done = {"compress"})

\* the third call compresses with context 1 after the first call failed
C2_Witness ==
    \E t \in Threads :
        /\ pc[t] = "q_return" /\ frame[t].callNo = 3 /\ frame[t].cctx = 1
        /\ Len(outcomes) = 2 /\ outcomes[1].status = CANNOT_COMPRESS

\* what a caller may see when the device could not be started: the block
\* compressed by the software path, or an error the engine itself reported
SoftwareOrEngineFault(r) ==
    \/ r.status = "ok" /\ r.path = "software"
    \/ r.status = "error" /\ r.cause = "engine"

C4_TeardownOrder ==
    /\ ~destroyed => releases = <<>>
    /\ (destroyed /\ initialized)
       => /\ releases = <<[kind |-> "QZSTD_freeSeqProdState", id |-> sequenceProducerState],
                          [kind |-> "ZSTD_freeCCtx", id |-> cctx]>>
          /\ ~sessions[sequenceProducerState].live
          /\ ~ctxs[cctx].live
    /\ (destroyed /\ ncalls = 0)
       => releases = <<>> /\ ~initialized /\ ctxs = <<>> /\ sessions = <<>>

\* an instance that compressed twice has been destroyed
C4_Witness ==
    destroyed /\ initialized /\ Len(outcomes) = 2 /\ Len(releases) = 2

Before(t, a, b) == b \in frame[t].done => a \in frame[t].done

\* C10: the first call starts the device, then creates the session handle,
\* then registers the callback with the context it created, then enables the
\* fallback, then applies the level; the instance is marked initialized only
\* after that, and a block is compressed only on an initialized instance.
C10_InitializationOrder ==
    /\ \A t \in Threads :
         /\ Before(t, "startDevice", "createSeqProd")
         /\ Before(t, "createSeqProd", "register")
         /\ Before(t, "createCCtx", "register")
         /\ Before(t, "register", "setFallback")
         /\ Before(t, "setFallback", "setLevel")
         /\ Before(t, "setLevel", "setInitialized")
         /\ "compress" \in frame[t].done => initialized
         /\ "register" \in frame[t].done
            => /\ ctxs[cctx].call = frame[t].callNo
               /\ ctxs[cctx].producer = sequenceProducerState
               /\ deviceStarts = 1
    /\ initialized
       => /\ cctx # 0 /\ sequenceProducerState # 0 /\ deviceStarts = 1
          /\ ctxs[cctx].producer = sequenceProducerState
          /\ ctxs[cctx].fallback
          /\ ctxs[cctx].levelSet /\ ctxs[cctx].level = codec.level

\* the first call has run the whole block and compressed its block
C10_Witness ==
    \E t \in Threads :
        /\ frame[t].callNo = 1 /\ pc[t] = "q_return"
        /\ frame[t].done = {"createCCtx", "startDevice", "createSeqProd", "register",
                            "setFallback", "setLevel", "setInitialized", "log", "compress"}

====
